---- MODULE Spec2Model ----
(***************************************************************************)
(* The resumable X.com bookmark import of raindrop-io-mcp:                 *)
(*   - the import-state store (lib/x-import-state.ts),                     *)
(*   - the import_x_bookmarks tool handler (tools/x/import-bookmarks.ts),  *)
(*   - the X API rate limiter and request loop (lib/x-client.ts).          *)
(* A tool invocation is an async function: it is cut into one action per   *)
(* await point, each action running the synchronous code up to the next    *)
(* await.                                                                  *)
(***************************************************************************)
EXTENDS Integers, Sequences, FiniteSets, TLC

\* ------------------------------------------------------------------ bounds
\* Number of import_x_bookmarks invocations in one behaviour.
MaxInvocations == 3

\* The two invocation slots of the MCP server process that the model follows.
Procs == {1, 2}

\* Tweet ids the source can deliver.
TweetIds == {1, 2, 3}

\* Values of Date.now() at run creation, hence the run ids.
RunIds == 1..MaxInvocations

\* nextPaginationToken / pagination_token: 0 is undefined, k > 0 asks for
\* page k of the source.
NoToken == 0

\* maxResults argument: 0 is "not given" (the handler tests its truthiness).
MaxResultsArgs == {0, 1}

\* resumeImportId argument: 0 is "not given".
NoResume == 0

\* A resumeImportId that names no run.
UnknownRun == MaxInvocations + 1

\* Default of the collectionName argument.
DefaultCollection == "X-Bookmarks"

\* Values of the collectionName argument.
CollNames == {DefaultCollection, "Reading"}

\* The id the destination library gives the collection of a title.
CollectionId(cname) == IF cname = DefaultCollection THEN 1 ELSE 2

\* The bookmark sets the source API may hold: a list of pages. The page after
\* the last one does not exist (next_token absent on the last page).
Sources ==
    { << <<1, 2>>, <<3>> >>,        \* two pages
      << <<1, 2>>, << >> >> }       \* the second call returns an empty page

\* includes.users of the source: tweet 3's author is missing from the page.
AuthorOf(t) == IF t = 3 THEN "" ELSE "alice"

\* What the destination collection holds before the first import.
Seedings ==
    { << >>,
      << [host |-> "twitter.com", user |-> "bob", path |-> "status", id |-> 1,
          collectionId |-> 1],
         [host |-> "example.com", user |-> "blog", path |-> "post", id |-> 2,
          collectionId |-> 1] >> }

\* ------------------------------------------------------------------ state
VARIABLES
    source,       \* pages held by the source API
    failIds,      \* tweets whose transform or createRaindrop throws
    authed,       \* isXAuthenticated() as the latest invocation found it
    clock,        \* Date.now()
    collections,  \* titles of the collections of the destination library
    dest,         \* items of the destination collection, oldest first
    files,        \* the import-state directory: run id -> ledger
    inv,          \* the invocations: position, parameters, local variables
    resp,         \* what each invocation returned last
    nInvoked,     \* invocations so far
    hist,         \* history kept per run id for the properties (not program state)
    rateLimiter,  \* the global RateLimiter instance of x-client
    xreq,         \* the xApiRequest call in progress
    xapi,         \* the X API's rate-limit window for the endpoint
    nowMs,        \* Date.now() as x-client reads it, in milliseconds
    corrupt,      \* run ids whose file cannot be read or does not parse
    storeOut,     \* what the latest direct call of a store function returned
    scan          \* the loadExistingTweetIds call followed page by page

vars == <<source, failIds, authed, clock, collections, dest, files, inv, resp,
          nInvoked, hist, rateLimiter, xreq, xapi, nowMs, corrupt, storeOut, scan>>

\* The variables of the store that the import handler leaves alone.
svars == <<corrupt, storeOut, scan>>

\* The variables of x-client.
xvars == <<rateLimiter, xreq, xapi, nowMs>>

\* ------------------------------------------------------- import-state store
\* XImportState without lastUpdateAt (refreshed by every save, read only by
\* the duration string) and without the error message and timestamp.
createImportState(now, collectionId, collectionName) ==
    [ importId |-> now,
      status |-> "running",
      startedAt |-> now,
      collectionId |-> collectionId,
      collectionName |-> collectionName,
      totalFetched |-> 0,
      totalSaved |-> 0,
      totalSkipped |-> 0,
      totalFailed |-> 0,
      nextPaginationToken |-> NoToken,
      processedTweetIds |-> << >>,
      errors |-> << >> ]

\* The placeholder of `state` while an invocation has none.
NoState == [createImportState(0, 0, "") EXCEPT !.status = "none"]

\* writeFileSync of the whole ledger under the run id.
saveImportState(fs, state) ==
    [id \in DOMAIN fs \cup {state.importId} |->
        IF id = state.importId THEN state ELSE fs[id]]

\* readFileSync and JSON.parse of the file of a run succeed; where they
\* throw, the store's functions catch.
Parses(importId) == importId \notin corrupt

\* existsSync + readFileSync + JSON.parse: loadImportState returns a ledger,
\* not null.
ImportExists(fs, importId) == importId \in DOMAIN fs /\ Parses(importId)

loadImportState(fs, importId) == fs[importId]

\* getActiveImport returns the first running ledger in readdir order, which
\* the file system decides: any of these.
\* Mutant: the scan looks for a status no run ever has.
ActiveImportsWrongStatus(fs) == {id \in DOMAIN fs : fs[id].status = "active"}

\* Mutant: a file that does not parse ends the scan with nothing found.
ActiveImportsAbortedByCorrupt(fs) ==
    IF \E id \in DOMAIN fs : ~Parses(id)
    THEN {}
    ELSE {id \in DOMAIN fs : fs[id].status = "running"}

\* Mutant: a running ledger that has fetched a page is passed over.
ActiveImportsWithoutProgress(fs) ==
    {id \in DOMAIN fs : /\ Parses(id)
                         /\ fs[id].status = "running"
                         /\ fs[id].totalFetched = 0}

ActiveImports(fs) ==
    {id \in DOMAIN fs : Parses(id) /\ fs[id].status = "running"}

\* deleteImportState: unlinkSync of the file of the run.
deleteImportState(fs, importId) ==
    [id \in DOMAIN fs \ {importId} |-> fs[id]]

\* listImportStates: the ledgers that parse, most recent startedAt first
\* (the runs of the model have distinct startedAt).
listImportStates(fs) ==
    LET ok == {id \in DOMAIN fs : Parses(id)}
        Later(id) == {o \in ok : fs[o].startedAt > fs[id].startedAt}
    IN [k \in 1..Cardinality(ok) |->
           fs[CHOOSE id \in ok : Cardinality(Later(id)) = k - 1]]

\* The result of a direct call of loadImportState, getActiveImport or
\* listImportStates; `found` is FALSE for null.
StoreResult(op, importId, found, state, list) ==
    [op |-> op, importId |-> importId, found |-> found, state |-> state,
     list |-> list]

NoStoreResult == StoreResult("none", 0, FALSE, NoState, << >>)

Contains(seq, x) == \E k \in 1..Len(seq) : seq[k] = x

isTweetProcessed(state, tweetId) == Contains(state.processedTweetIds, tweetId)

\* Mutant: the id is not recorded.
markTweetProcessedForgets(state, tweetId) == state

markTweetProcessed(state, tweetId) ==
    IF ~Contains(state.processedTweetIds, tweetId)
    THEN [state EXCEPT !.processedTweetIds = Append(@, tweetId)]
    ELSE state

\* Mutant: the failure is counted here and again by the caller.
addImportErrorCountedTwice(state, tweetId) ==
    [state EXCEPT !.errors = Append(@, tweetId),
                  !.totalFailed = @ + 2]

addImportError(state, tweetId) ==
    [state EXCEPT !.errors = Append(@, tweetId),
                  !.totalFailed = @ + 1]

\* Mutant: the summary reports the fetched count as saved.
getImportSummarySavedIsFetched(state) ==
    [ importId |-> state.importId,
      status |-> state.status,
      fetched |-> state.totalFetched,
      saved |-> state.totalFetched,
      skipped |-> state.totalSkipped,
      failed |-> state.totalFailed,
      errorCount |-> Len(state.errors) ]

getImportSummary(state) ==
    [ importId |-> state.importId,
      status |-> state.status,
      fetched |-> state.totalFetched,
      saved |-> state.totalSaved,
      skipped |-> state.totalSkipped,
      failed |-> state.totalFailed,
      errorCount |-> Len(state.errors) ]

NoSummary == getImportSummary(NoState)

\* ------------------------------------------------------- duplicate index
\* tweetIdPattern, /(?:x\.com|twitter\.com)\/\w+\/status\/(\d+)/, on a link
\* kept as its parts: a host, a \w+ user segment, the path word and the id.
\* Mutant: the pattern knows x.com only.
MatchesTweetUrlXOnly(link) ==
    /\ link.host = "x.com"
    /\ link.user # ""
    /\ link.path = "status"

MatchesTweetUrl(link) ==
    /\ link.host \in {"x.com", "twitter.com"}
    /\ link.user # ""
    /\ link.path = "status"

\* One getRaindrops page holds perPage items.
perPage == 50

ExtractIds(items) ==
    LET F[k \in 0..Len(items)] ==
            IF k = 0 THEN << >>
            ELSE IF MatchesTweetUrl(items[k])
                 THEN Append(F[k - 1], items[k].id)
                 ELSE F[k - 1]
    IN F[Len(items)]


\* The page limit of the scan (line 194).
ScanPageLimit == 100

\* The sizes of the destination collection that the paged scan is followed
\* on: empty, around one page, some pages, and around and beyond the limit.
ScanSizes == {0, 49, 50, 120, 5049, 5050, 6000}

\* Item k of such a collection: of every five links one is an x.com status,
\* one a twitter.com status, one an x.com link that is no status, two are
\* other sites.
ScanItem(k) ==
    [ host |-> IF k % 5 \in {0, 2} THEN "x.com"
               ELSE IF k % 5 = 1 THEN "twitter.com" ELSE "example.com",
      user |-> "bob",
      path |-> IF k % 5 \in {0, 1} THEN "status" ELSE "photo",
      id |-> k,
      collectionId |-> 1 ]

\* getRaindrops(collectionId, {page, perpage}): the items of page `page` of
\* a collection of `size` items.
ScanPage(size, page) ==
    LET first == page * perPage + 1
        last == IF (page + 1) * perPage < size THEN (page + 1) * perPage ELSE size
    IN IF first > size THEN << >>
       ELSE [k \in 1..(last - first + 1) |-> ScanItem(first + k - 1)]

\* The locals of loadExistingTweetIds, and why its loop ended.
NoScan ==
    [ pc |-> "idle", size |-> 0, page |-> 0, tweetIds |-> << >>,
      stop |-> "none" ]

\* Mutant: the loop has no page limit.
ScanLimitReachedNever(page) == FALSE

\* Lines 193-199: the safety limit, tested after page++.
ScanLimitReached(page) == page > ScanPageLimit

\* The page at which getRaindrops throws: none.
NoListError == -1

\* Page `page` of the items of a collection.
PageOf(items, page) ==
    SubSeq(items, page * perPage + 1,
           IF (page + 1) * perPage < Len(items)
           THEN (page + 1) * perPage ELSE Len(items))

\* The loop of loadExistingTweetIds from page `page` on, tweetIds being the
\* ids collected so far; getRaindrops throws at page failAt.
RECURSIVE ScanFrom(_, _, _, _)
ScanFrom(items, page, failAt, tweetIds) ==
    IF page = failAt THEN tweetIds
    ELSE LET response == PageOf(items, page)
             collected == tweetIds \o ExtractIds(response)
         IN IF Len(response) < perPage THEN collected
            ELSE IF ScanLimitReached(page + 1) THEN collected
            ELSE ScanFrom(items, page + 1, failAt, collected)

\* Mutant: an error of the list call discards what was collected.
loadExistingTweetIdsNothingOnError(items, failAt) ==
    IF failAt # NoListError /\ failAt * perPage < Len(items)
    THEN << >>
    ELSE ScanFrom(items, 0, failAt, << >>)

\* loadExistingTweetIds on a collection holding `items`, the list call
\* throwing at page failAt.
loadExistingTweetIds(items, failAt) == ScanFrom(items, 0, failAt, << >>)

\* The items the scan reads before it ends.
ItemsRead(items, failAt) ==
    LET upTo == IF failAt # NoListError /\ failAt * perPage < Len(items)
                THEN failAt * perPage ELSE Len(items)
    IN IF upTo > (ScanPageLimit + 1) * perPage
       THEN (ScanPageLimit + 1) * perPage ELSE upTo

\* ------------------------------------------------------- transform
\* tweetToRaindrop: the link is https://x.com/{username}/status/{id}, the
\* username "unknown" when the author is not among includes.users.
\* Mutant: the bookmark goes to the first collection, whatever the run's is.
tweetToRaindropFirstCollection(tweetId, collectionId) ==
    [ host |-> "x.com",
      user |-> IF AuthorOf(tweetId) = "" THEN "unknown" ELSE AuthorOf(tweetId),
      path |-> "status",
      id |-> tweetId,
      collectionId |-> 1 ]

tweetToRaindrop(tweetId, collectionId) ==
    [ host |-> "x.com",
      user |-> IF AuthorOf(tweetId) = "" THEN "unknown" ELSE AuthorOf(tweetId),
      path |-> "status",
      id |-> tweetId,
      collectionId |-> collectionId ]

\* getRaindrops(collectionId): the items of one collection.
InCollection(items, collectionId) ==
    SelectSeq(items, LAMBDA item : item.collectionId = collectionId)

\* ------------------------------------------------------- source API
\* fetchBookmarks(paginationToken): data and meta.next_token.
PageIndex(token) == IF token = NoToken THEN 1 ELSE token

SourcePage(token) == source[PageIndex(token)]

SourceNextToken(token) ==
    IF PageIndex(token) < Len(source) THEN PageIndex(token) + 1 ELSE NoToken

\* ------------------------------------------------------- invocations
Idle ==
    [ pc |-> "idle",
      resumeImportId |-> NoResume,
      maxResults |-> 0,
      collectionName |-> DefaultCollection,
      state |-> NoState,
      paginationToken |-> NoToken,
      totalProcessed |-> 0,
      page |-> << >>,
      nextToken |-> NoToken,
      idx |-> 0,
      saved |-> 0,
      skipped |-> 0 ]

\* structuredContent of a tool result; `seq` alternates from one invocation
\* of a slot to the next (kept for the properties).
Flip(seq) == 1 - seq

Response(seq, status, importId, summary) ==
    [seq |-> seq, status |-> status, importId |-> importId, summary |-> summary]

NoResponse == Response(0, "none", 0, NoSummary)

\* The invocation has not returned yet.
Pending(seq) == Response(seq, "pending", 0, NoSummary)

NoHist ==
    [ seed |-> {}, collIds |-> {}, listFailed |-> FALSE, read |-> 0,
      resumed |-> FALSE,
      caps |-> {}, fetched |-> {}, wrote |-> [t \in TweetIds |-> 0],
      inflight |-> {} ]

\* The tweet ids encoded by the links of a collection: the links of the form
\* https://x.com/<user>/status/<id> or https://twitter.com/<user>/status/<id>.
EncodedIds(items) ==
    { items[k].id : k \in { j \in 1..Len(items) :
                              /\ items[j].host = "x.com" \/ items[j].host = "twitter.com"
                              /\ items[j].path = "status"
                              /\ items[j].user # "" } }

SetHist(h, id, rec) ==
    [k \in DOMAIN h \cup {id} |-> IF k = id THEN rec ELSE h[k]]

Range(seq) == {seq[k] : k \in 1..Len(seq)}

\* ------------------------------------------------------------------ x-client
\* Requests followed within one rate-limit window.
MaxRequests == 182

\* Rate-limit windows followed in one behaviour of the request loop.
MaxWindows == 2

\* Length of the X API's rate-limit window, in seconds (15 minutes).
WindowSec == 900

MIN_REQUEST_INTERVAL_MS == 350
RATE_LIMIT_DANGER_ZONE == 5

\* The limit of the bookmarks endpoint, which RateLimiter takes as its budget.
RateLimit == 180

\* Default of the maxRetries parameter of xApiRequest.
maxRetries == 3

\* sleep(ms) at time t ends at the returned time: setTimeout with a delay
\* that is not positive fires at once.
sleep(t, ms) == IF ms > 0 THEN t + ms ELSE t

\* Math.floor(Date.now() / 1000)
Seconds(t) == t \div 1000

\* new RateLimiter()
NewRateLimiter == [remaining |-> RateLimit, reset |-> 0, lastRequestTime |-> 0]

\* Mutant: the pause ends at the reset time, without the 5 s buffer.
checkAndWaitNoBuffer(rl, t) ==
    LET elapsed == t - rl.lastRequestTime
        t1 == IF elapsed < MIN_REQUEST_INTERVAL_MS /\ rl.lastRequestTime > 0
              THEN sleep(t, MIN_REQUEST_INTERVAL_MS - elapsed)
              ELSE t
        nowSeconds == Seconds(t1)
    IN IF nowSeconds > rl.reset
       THEN [rl |-> [rl EXCEPT !.remaining = RateLimit], now |-> t1]
       ELSE IF rl.remaining <= RATE_LIMIT_DANGER_ZONE
       THEN [rl |-> [rl EXCEPT !.remaining = RateLimit],
             now |-> sleep(t1, (rl.reset - nowSeconds) * 1000)]
       ELSE [rl |-> rl, now |-> t1]

\* RateLimiter.checkAndWait called at time t: the limiter and the time at
\* which the call returns.
checkAndWait(rl, t) ==
    LET elapsed == t - rl.lastRequestTime
        t1 == IF elapsed < MIN_REQUEST_INTERVAL_MS /\ rl.lastRequestTime > 0
              THEN sleep(t, MIN_REQUEST_INTERVAL_MS - elapsed)
              ELSE t
        nowSeconds == Seconds(t1)
    IN IF nowSeconds > rl.reset
       THEN [rl |-> [rl EXCEPT !.remaining = RateLimit], now |-> t1]
       ELSE IF rl.remaining <= RATE_LIMIT_DANGER_ZONE
       THEN [rl |-> [rl EXCEPT !.remaining = RateLimit],
             now |-> sleep(t1, (rl.reset - nowSeconds) * 1000 + 5000)]
       ELSE [rl |-> rl, now |-> t1]

\* RateLimiter.recordRequest at time t.
recordRequest(rl, t) ==
    [rl EXCEPT !.lastRequestTime = t,
               !.remaining = IF @ > 0 THEN @ - 1 ELSE @]

\* The x-rate-limit-remaining and x-rate-limit-reset headers of a response.
NoHeaders == [present |-> FALSE, remaining |-> 0, reset |-> 0]

\* RateLimiter.updateFromHeaders
updateFromHeaders(rl, headers) ==
    IF headers.present
    THEN [rl EXCEPT !.remaining = headers.remaining, !.reset = headers.reset]
    ELSE rl

\* The X API counts a request that arrives at time t: a window opens with the
\* first request after the previous window's end.
ApiReceives(api, t) ==
    IF Seconds(t) >= api.windowEnd
    THEN [windowEnd |-> Seconds(t) + WindowSec, count |-> 1]
    ELSE [api EXCEPT !.count = @ + 1]

\* The response status: 429 for a request beyond the window's limit.
ApiStatus(api) == IF api.count > RateLimit THEN 429 ELSE 200

ApiHeaders(api) ==
    [present |-> TRUE,
     remaining |-> IF api.count > RateLimit THEN 0 ELSE RateLimit - api.count,
     reset |-> api.windowEnd]

\* fetch rejects (a network failure): there is no response and no status.
NetworkFailure == 0

\* Mutant: every response that is not ok is retried.
ShouldRetryAnyError(status, attempt) ==
    status # 200 /\ attempt < maxRetries - 1

\* Lines 549 and 561: a 429 is retried while attempts are left.
ShouldRetry(status, attempt) ==
    status = 429 /\ attempt < maxRetries - 1

\* The locals of xApiRequest (attempt, the response's status and headers, how
\* the call ended) and, kept for the properties, the fetches of the call in
\* progress, the time of the latest dispatch and the calls so far.
NoRequest ==
    [ pc |-> "idle", attempt |-> 0, status |-> 0, headers |-> NoHeaders,
      result |-> "none", requests |-> 0, dispatchedAt |-> 0, calls |-> 0 ]

\* The module as loaded, one window's length into the epoch.
XInit ==
    /\ rateLimiter = NewRateLimiter
    /\ xreq = NoRequest
    /\ xapi = [windowEnd |-> 0, count |-> 0]
    /\ nowMs = WindowSec * 1000

Init ==
    /\ XInit
    /\ corrupt = {}
    /\ storeOut = NoStoreResult
    /\ scan = NoScan
    /\ source \in Sources
    /\ failIds \in {{}, {2}}
    /\ authed = FALSE
    /\ clock = 0
    /\ \E seeding \in Seedings :
          /\ dest = seeding
          /\ collections = IF seeding = << >> THEN {} ELSE {DefaultCollection}
    /\ files = << >>
    /\ inv = [i \in Procs |-> Idle]
    /\ resp = [i \in Procs |-> NoResponse]
    /\ nInvoked = 0
    /\ hist = << >>

\* Mutant: the catch also drops the cursor.
FailedStateWithoutCursor(state) ==
    [state EXCEPT !.status = "failed", !.nextPaginationToken = NoToken]

\* Lines 372-389: the catch of the handler.
FailedState(state) == [state EXCEPT !.status = "failed"]

\* Lines 353-356: the end of the handler's try block.
CompletedState(state) ==
    [state EXCEPT !.status = "completed", !.nextPaginationToken = NoToken]

\* Mutant: skipped records are added to totalSaved as well.
StateAfterBatchSkippedAsSaved(state, saved, skipped, nextToken) ==
    [state EXCEPT !.totalSaved = @ + saved + skipped,
                  !.totalSkipped = @ + skipped,
                  !.nextPaginationToken = nextToken]

\* Lines 321-328: the counters and the cursor after a page.
StateAfterBatch(state, saved, skipped, nextToken) ==
    [state EXCEPT !.totalSaved = @ + saved,
                  !.totalSkipped = @ + skipped,
                  !.nextPaginationToken = nextToken]

\* Mutant: the loop does not stop at a page without next_token.
LoopEndsOnlyAtMaxResults(maxResults, totalProcessed, nextToken) ==
    maxResults # 0 /\ totalProcessed >= maxResults

\* Lines 338-348: the two break conditions after a page.
LoopEnds(maxResults, totalProcessed, nextToken) ==
    \/ (maxResults # 0 /\ totalProcessed >= maxResults)
    \/ nextToken = NoToken

\* Mutant: a resume starts with an empty processed list.
ResumedStateForgetful(loaded) ==
    [loaded EXCEPT !.status = "running", !.processedTweetIds = << >>]

\* Mutant: a resume starts again from the first page.
ResumedStateFromStart(loaded) ==
    [loaded EXCEPT !.status = "running", !.nextPaginationToken = NoToken]

\* Mutant: a resume starts with an empty error log.
ResumedStateErrorsCleared(loaded) ==
    [loaded EXCEPT !.status = "running", !.errors = << >>]

\* Lines 235-236: the loaded ledger goes back to running.
ResumedState(loaded) == [loaded EXCEPT !.status = "running"]

\* The handler from its entry to its first await (lines 199-254, and 269-274
\* on a resume). `tokens` is whether the X token file exists, which
\* x_authenticate and its logout decide.
Invoke(i, tokens, resumeImportId, maxResults, collectionName) ==
    /\ inv[i].pc = "idle"
    /\ nInvoked < MaxInvocations
    /\ nInvoked' = nInvoked + 1
    /\ authed' = tokens
    /\ LET args == [Idle EXCEPT !.resumeImportId = resumeImportId,
                                !.maxResults = maxResults,
                                !.collectionName = collectionName]
           \* an invocation answered before it reads maxResults
           early == [Idle EXCEPT !.resumeImportId = resumeImportId]
       IN
       IF ~tokens THEN
          /\ resp' = [resp EXCEPT ![i] = Response(Flip(resp[i].seq), "not_authenticated", 0, NoSummary)]
          /\ inv' = [inv EXCEPT ![i] = early]
          /\ UNCHANGED <<files, hist>>
       ELSE IF resumeImportId # NoResume THEN
          IF ~ImportExists(files, resumeImportId) THEN
             /\ resp' = [resp EXCEPT ![i] = Response(Flip(resp[i].seq), "import_not_found", 0, NoSummary)]
             /\ inv' = [inv EXCEPT ![i] = early]
             /\ UNCHANGED <<files, hist>>
          ELSE IF loadImportState(files, resumeImportId).status = "completed" THEN
             /\ resp' = [resp EXCEPT ![i] =
                    Response(Flip(resp[i].seq), "already_completed", 0,
                             getImportSummary(loadImportState(files, resumeImportId)))]
             /\ inv' = [inv EXCEPT ![i] = early]
             /\ UNCHANGED <<files, hist>>
          ELSE
             LET state == ResumedState(loadImportState(files, resumeImportId))
             IN /\ files' = saveImportState(files, state)
                /\ inv' = [inv EXCEPT ![i] =
                       [args EXCEPT !.pc = "getUser", !.state = state]]
                /\ resp' = [resp EXCEPT ![i] = Pending(Flip(resp[i].seq))]
                /\ hist' = [hist EXCEPT ![resumeImportId] =
                       [@ EXCEPT !.resumed = TRUE,
                                 !.caps = @ \cup {maxResults}]]
       ELSE
          IF ActiveImports(files) # {} THEN
             /\ \E a \in ActiveImports(files) :
                   resp' = [resp EXCEPT ![i] =
                       Response(Flip(resp[i].seq), "import_in_progress", a,
                                getImportSummary(files[a]))]
             /\ inv' = [inv EXCEPT ![i] = early]
             /\ UNCHANGED <<files, hist>>
          ELSE
             /\ inv' = [inv EXCEPT ![i] = [args EXCEPT !.pc = "getCollection"]]
             /\ resp' = [resp EXCEPT ![i] = Pending(Flip(resp[i].seq))]
             /\ UNCHANGED <<files, hist>>
    /\ UNCHANGED <<svars, xvars, source, failIds, clock, collections, dest>>

\* getOrCreateCollection throws: the handler has no try around it, the
\* invocation ends with the exception.
CollectionFails(i) ==
    /\ inv[i].pc = "getCollection"
    /\ inv' = [inv EXCEPT ![i] = Idle]
    /\ resp' = [resp EXCEPT ![i] = Response(resp[i].seq, "exception", 0, NoSummary)]
    /\ UNCHANGED <<svars, xvars, source, failIds, authed, clock, collections, dest, files,
                   nInvoked, hist>>

\* getOrCreateCollection returns (lines 254-264); createImportState reads
\* Date.now(), which has advanced by `tick` since the previous run creation.
CollectionResolved(i, tick) ==
    /\ inv[i].pc = "getCollection"
    /\ clock + tick \in RunIds
    /\ clock' = clock + tick
    /\ collections' = collections \cup {inv[i].collectionName}
    /\ inv' = [inv EXCEPT ![i].pc = "scan",
                          ![i].state = createImportState(clock',
                                           CollectionId(inv[i].collectionName),
                                           inv[i].collectionName)]
    /\ UNCHANGED <<svars, xvars, source, failIds, authed, dest, files, resp, nInvoked,
                   hist>>

\* loadExistingTweetIds returns; lines 265-274.
ScanDone(i, failAt) ==
    /\ inv[i].pc = "scan"
    /\ LET items == InCollection(dest, inv[i].state.collectionId)
           existingIds == loadExistingTweetIds(items, failAt)
           state == [inv[i].state EXCEPT !.processedTweetIds = existingIds]
       IN /\ files' = saveImportState(files, state)
          /\ inv' = [inv EXCEPT ![i].pc = "getUser", ![i].state = state]
          /\ hist' = SetHist(hist, state.importId,
                 [NoHist EXCEPT !.seed = Range(existingIds),
                                !.collIds = EncodedIds(items),
                                !.listFailed = ItemsRead(items, failAt) < Len(items),
                                !.read = ItemsRead(items, failAt),
                                !.caps = {inv[i].maxResults}])
    /\ UNCHANGED <<svars, xvars, source, failIds, authed, clock, collections, dest, resp,
                   nInvoked>>

\* An exception inside the try block: lines 372-389.
Fail(i) ==
    LET state == FailedState(inv[i].state)
    IN /\ files' = saveImportState(files, state)
       /\ inv' = [inv EXCEPT ![i] = Idle]
       /\ resp' = [resp EXCEPT ![i] =
              Response(resp[i].seq, "failed", state.importId,
                       getImportSummary(state))]

\* Lines 353-371.
Finish(i, state0) ==
    LET state == CompletedState(state0)
    IN /\ files' = saveImportState(files, state)
       /\ inv' = [inv EXCEPT ![i] = Idle]
       /\ resp' = [resp EXCEPT ![i] =
              Response(resp[i].seq, "completed", state.importId,
                       getImportSummary(state))]

\* getCurrentXUser returns or throws (lines 274-278).
UserFetched(i, ok) ==
    /\ inv[i].pc = "getUser"
    /\ IF ok
       THEN /\ inv' = [inv EXCEPT ![i].pc = "fetch",
                                  ![i].paginationToken =
                                      inv[i].state.nextPaginationToken,
                                  ![i].totalProcessed = 0]
            /\ UNCHANGED <<files, resp>>
       ELSE Fail(i)
    /\ UNCHANGED <<svars, xvars, source, failIds, authed, clock, collections, dest,
                   nInvoked, hist>>

\* fetchBookmarks returns or throws (lines 283-295).
FetchPage(i, ok) ==
    /\ inv[i].pc = "fetch"
    /\ IF ~ok THEN Fail(i) /\ UNCHANGED hist
       ELSE LET data == SourcePage(inv[i].paginationToken)
            IN IF Len(data) = 0
               THEN Finish(i, inv[i].state) /\ UNCHANGED hist
               ELSE /\ inv' = [inv EXCEPT
                          ![i].pc = "batch",
                          ![i].page = data,
                          ![i].nextToken = SourceNextToken(inv[i].paginationToken),
                          ![i].state.totalFetched = @ + Len(data),
                          ![i].idx = 1,
                          ![i].saved = 0,
                          ![i].skipped = 0]
                    /\ hist' = [hist EXCEPT ![inv[i].state.importId].fetched =
                                    @ \cup Range(data)]
                    /\ UNCHANGED <<files, resp>>
    /\ UNCHANGED <<svars, xvars, source, failIds, authed, clock, collections, dest,
                   nInvoked>>

\* Mutant: no try/catch around the write, a failure ends the run.
ProcessTweetUncaught(i) ==
    /\ inv[i].pc = "batch"
    /\ inv[i].idx <= Len(inv[i].page)
    /\ LET tweetId == inv[i].page[inv[i].idx]
           state == inv[i].state
       IN IF isTweetProcessed(state, tweetId)
          THEN /\ inv' = [inv EXCEPT ![i].skipped = @ + 1, ![i].idx = @ + 1]
               /\ UNCHANGED <<dest, hist, files, resp>>
          ELSE IF tweetId \in failIds
          THEN Fail(i) /\ UNCHANGED <<dest, hist>>
          ELSE /\ dest' = Append(dest, tweetToRaindrop(tweetId, state.collectionId))
               /\ inv' = [inv EXCEPT ![i].state = markTweetProcessed(state, tweetId),
                                     ![i].saved = @ + 1,
                                     ![i].idx = @ + 1]
               /\ hist' = [hist EXCEPT ![state.importId].wrote[tweetId] = @ + 1]
               /\ UNCHANGED <<files, resp>>
    /\ UNCHANGED <<svars, xvars, source, failIds, authed, clock, collections, nInvoked>>

\* One iteration of the loop of processTweetBatch (lines 150-187).
ProcessTweet(i) ==
    /\ inv[i].pc = "batch"
    /\ inv[i].idx <= Len(inv[i].page)
    /\ LET tweetId == inv[i].page[inv[i].idx]
           state == inv[i].state
       IN IF isTweetProcessed(state, tweetId)
          THEN /\ inv' = [inv EXCEPT ![i].skipped = @ + 1, ![i].idx = @ + 1]
               /\ UNCHANGED <<dest, hist>>
          ELSE IF tweetId \in failIds
          THEN /\ inv' = [inv EXCEPT ![i].state = addImportError(state, tweetId),
                                     ![i].idx = @ + 1]
               /\ UNCHANGED <<dest, hist>>
          ELSE /\ dest' = Append(dest, tweetToRaindrop(tweetId, state.collectionId))
               /\ inv' = [inv EXCEPT ![i].state = markTweetProcessed(state, tweetId),
                                     ![i].saved = @ + 1,
                                     ![i].idx = @ + 1]
               /\ hist' = [hist EXCEPT ![state.importId].wrote[tweetId] = @ + 1]
    /\ UNCHANGED <<svars, xvars, source, failIds, authed, clock, collections, files, resp,
                   nInvoked>>

\* processTweetBatch returns: lines 321-351.
PageEnd(i) ==
    /\ inv[i].pc = "batch"
    /\ inv[i].idx > Len(inv[i].page)
    /\ LET state == StateAfterBatch(inv[i].state, inv[i].saved, inv[i].skipped,
                                    inv[i].nextToken)
           totalProcessed == inv[i].totalProcessed + Len(inv[i].page)
       IN /\ files' = saveImportState(files, state)
          /\ inv' = [inv EXCEPT
                ![i].state = state,
                ![i].totalProcessed = totalProcessed,
                ![i].pc = IF LoopEnds(inv[i].maxResults, totalProcessed,
                                      inv[i].nextToken)
                          THEN "finish" ELSE "fetch",
                ![i].paginationToken =
                    IF LoopEnds(inv[i].maxResults, totalProcessed, inv[i].nextToken)
                    THEN @ ELSE inv[i].nextToken,
                ![i].page = << >>,
                ![i].idx = 0,
                ![i].saved = 0,
                ![i].skipped = 0]
    /\ UNCHANGED <<svars, xvars, source, failIds, authed, clock, collections, dest, resp,
                   nInvoked, hist>>

\* After a break of the loop: lines 353-371. No await separates this from
\* the page's save; it is its own step because it is its own file write.
Complete(i) ==
    /\ inv[i].pc = "finish"
    /\ Finish(i, inv[i].state)
    /\ UNCHANGED <<svars, xvars, source, failIds, authed, clock, collections, dest,
                   nInvoked, hist>>

\* The record whose createRaindrop call invocation i is awaiting, if any.
InFlight(i) ==
    IF /\ inv[i].pc = "batch"
       /\ inv[i].idx <= Len(inv[i].page)
       /\ ~isTweetProcessed(inv[i].state, inv[i].page[inv[i].idx])
    THEN {inv[i].page[inv[i].idx]}
    ELSE {}

\* The server process dies: every invocation in flight is gone, the files and
\* the destination stay as they are.
Crash ==
    /\ \E i \in Procs : inv[i].pc # "idle"
    /\ inv' = [i \in Procs |-> Idle]
    /\ resp' = [i \in Procs |->
                  IF inv[i].pc # "idle"
                  THEN Response(resp[i].seq, "lost", 0, NoSummary)
                  ELSE resp[i]]
    /\ hist' = [id \in DOMAIN hist |->
                  [hist[id] EXCEPT !.inflight = @ \cup
                      UNION {InFlight(i) : i \in {j \in Procs :
                                                    inv[j].state.importId = id}}]]
    /\ UNCHANGED <<svars, xvars, source, failIds, authed, clock, collections, dest, files,
                   nInvoked>>

\* No other invocation runs between a page's save and the completion that
\* follows it synchronously.
NoneFinishing(i) == \A j \in Procs \ {i} : inv[j].pc # "finish"

\* The steps of invocation slot i; `In` gives the values the inputs range
\* over: the token file's presence, the maxResults and collectionName
\* arguments, the milliseconds between two run creations, and the page at
\* which the list call of the duplicate scan throws.
Step(i, In) ==
    \/ \E tokens \in In.tokens, r \in {NoResume, UnknownRun} \cup DOMAIN files,
          m \in In.maxResults, cname \in In.collectionName :
             Invoke(i, tokens, r, m, cname)
    \/ CollectionFails(i)
    \/ \E tick \in In.ticks : CollectionResolved(i, tick)
    \/ \E failAt \in In.failAt : ScanDone(i, failAt)
    \/ \E ok \in BOOLEAN : UserFetched(i, ok)
    \/ \E ok \in BOOLEAN : FetchPage(i, ok)
    \/ ProcessTweet(i)
    \/ PageEnd(i)
    \/ Complete(i)

\* One invocation at a time, and process crashes.
Next ==
    \/ Step(1, [tokens |-> BOOLEAN, maxResults |-> MaxResultsArgs,
                collectionName |-> {DefaultCollection}, ticks |-> {1},
                failAt |-> {NoListError, 0}])
    \/ Crash

Spec == Init /\ [][Next]_vars

\* The same with the collectionName argument varied: over one source and an
\* empty library, with the X tokens stored and without maxResults.
NextColl ==
    \/ Step(1, [tokens |-> {TRUE}, maxResults |-> {0},
                collectionName |-> CollNames, ticks |-> {1},
                failAt |-> {NoListError, 0}])
    \/ Crash

InitColl ==
    /\ Init
    /\ source = << <<1, 2>>, <<3>> >>
    /\ failIds = {}
    /\ dest = << >>

SpecColl == InitColl /\ [][NextColl]_vars

\* saveImportState throws at the end of a page (line 331: the disk is full,
\* the directory is not writable). writeFileSync leaves the file as it was
\* or, when `cut`, cut short. The catch (lines 372-389) saves again, outside
\* any try: when that save throws too (~catchSaves) the handler ends with the
\* exception.
PersistFails(i, catchSaves, cut) ==
    /\ inv[i].pc = "batch"
    /\ inv[i].idx > Len(inv[i].page)
    /\ catchSaves => ~cut
    /\ LET state == FailedState(StateAfterBatch(inv[i].state, inv[i].saved,
                                                inv[i].skipped, inv[i].nextToken))
           id == state.importId
       IN IF catchSaves
          THEN /\ files' = saveImportState(files, state)
               /\ corrupt' = corrupt \ {id}
               /\ resp' = [resp EXCEPT ![i] =
                      Response(resp[i].seq, "failed", id, getImportSummary(state))]
          ELSE /\ files' = files
               /\ corrupt' = IF cut THEN corrupt \cup {id} ELSE corrupt
               /\ resp' = [resp EXCEPT ![i] =
                      Response(resp[i].seq, "exception", 0, NoSummary)]
    /\ inv' = [inv EXCEPT ![i] = Idle]
    /\ UNCHANGED <<scan, xvars, storeOut, source, failIds, authed, clock, collections,
                   dest, nInvoked, hist>>

\* One invocation at a time on a disk whose writes can fail, with the X
\* tokens stored and without maxResults.
NextDisk ==
    \/ Step(1, [tokens |-> {TRUE}, maxResults |-> {0},
                collectionName |-> {DefaultCollection}, ticks |-> {1},
                failAt |-> {NoListError, 0}])
    \/ \E catchSaves \in BOOLEAN, cut \in BOOLEAN : PersistFails(1, catchSaves, cut)

SpecDisk == InitColl /\ [][NextDisk]_vars

\* A destination collection of two pages: a bookmark of tweet 2 on the
\* first page, 49 other links, and a bookmark of tweet 1 on the second page.
TwoPageSeeding ==
    [k \in 1..(perPage + 1) |->
        IF k = 1
        THEN [host |-> "twitter.com", user |-> "bob", path |-> "status", id |-> 2,
              collectionId |-> 1]
        ELSE IF k = perPage + 1
        THEN [host |-> "x.com", user |-> "alice", path |-> "status", id |-> 1,
              collectionId |-> 1]
        ELSE [host |-> "example.com", user |-> "blog", path |-> "post",
              id |-> 10 + k, collectionId |-> 1]]

\* One invocation at a time over that collection, the list call of the scan
\* throwing at its first or second page or not at all.
NextSeed ==
    Step(1, [tokens |-> {TRUE}, maxResults |-> {0},
             collectionName |-> {DefaultCollection}, ticks |-> {1},
             failAt |-> {NoListError, 0, 1}])

InitSeed ==
    /\ XInit
    /\ corrupt = {}
    /\ storeOut = NoStoreResult
    /\ scan = NoScan
    /\ source = << <<1, 2>>, <<3>> >>
    /\ failIds = {}
    /\ authed = FALSE
    /\ clock = 0
    /\ dest = TwoPageSeeding
    /\ collections = {DefaultCollection}
    /\ files = << >>
    /\ inv = [i \in Procs |-> Idle]
    /\ resp = [i \in Procs |-> NoResponse]
    /\ nInvoked = 0
    /\ hist = << >>

SpecSeed == InitSeed /\ [][NextSeed]_vars

\* check_x_import is invoked with deleteImport naming a run that has a file
\* (lines 438-451), while no import invocation is in progress.
DeleteImport(importId) ==
    /\ \A i \in Procs : inv[i].pc = "idle"
    /\ importId \in DOMAIN files
    /\ files' = deleteImportState(files, importId)
    /\ corrupt' = corrupt \ {importId}
    /\ UNCHANGED <<scan, xvars, storeOut, source, failIds, authed, clock,
                   collections, dest, inv, resp, nInvoked, hist>>

\* One invocation at a time, crashes, and deletions of ledgers, without
\* maxResults.
NextDel ==
    \/ Step(1, [tokens |-> BOOLEAN, maxResults |-> {0},
                collectionName |-> {DefaultCollection}, ticks |-> {1},
                failAt |-> {NoListError, 0}])
    \/ Crash
    \/ \E importId \in RunIds : DeleteImport(importId)

SpecDel == InitColl /\ [][NextDel]_vars

\* Two invocations of one server process, interleaved at their awaits; run
\* creations may fall into the same millisecond.
Turn(i) ==
    /\ NoneFinishing(i)
    /\ inv[i].pc = "idle" => nInvoked < Cardinality(Procs)

NextConc ==
    \/ \E i \in Procs :
          \/ Turn(i) /\ \E tokens \in BOOLEAN,
                            r \in {NoResume, UnknownRun} \cup DOMAIN files,
                            m \in MaxResultsArgs :
                               Invoke(i, tokens, r, m, DefaultCollection)
          \/ Turn(i) /\ CollectionFails(i)
          \/ Turn(i) /\ \E tick \in {0, 1} : CollectionResolved(i, tick)
          \/ Turn(i) /\ \E failAt \in {NoListError, 0} : ScanDone(i, failAt)
          \/ Turn(i) /\ \E ok \in BOOLEAN : UserFetched(i, ok)
          \/ Turn(i) /\ \E ok \in BOOLEAN : FetchPage(i, ok)
          \/ Turn(i) /\ ProcessTweet(i)
          \/ Turn(i) /\ PageEnd(i)
          \/ Turn(i) /\ Complete(i)

SpecConc == Init /\ [][NextConc]_vars

\* ------------------------------------------------------ duplicate scan
\* loadExistingTweetIds is called on a collection of `size` items.
StartScan(size) ==
    /\ scan.pc \in {"idle", "done"}
    /\ scan' = [NoScan EXCEPT !.pc = "list", !.size = size]
    /\ UNCHANGED <<xvars, corrupt, storeOut, source, failIds, authed, clock,
                   collections, dest, files, inv, resp, nInvoked, hist>>

\* getRaindrops returns a page or throws: one turn of the loop, lines
\* 175-204.
ListAnswered(ok) ==
    /\ scan.pc = "list"
    /\ LET items == ScanPage(scan.size, scan.page)
       IN IF ~ok
          THEN scan' = [scan EXCEPT !.pc = "done", !.stop = "error"]
          ELSE IF Len(items) < perPage
          THEN scan' = [scan EXCEPT !.pc = "done", !.stop = "short",
                                    !.tweetIds = @ \o ExtractIds(items)]
          ELSE IF ScanLimitReached(scan.page + 1)
          THEN scan' = [scan EXCEPT !.pc = "done", !.stop = "limit",
                                    !.page = @ + 1,
                                    !.tweetIds = @ \o ExtractIds(items)]
          ELSE scan' = [scan EXCEPT !.page = @ + 1,
                                    !.tweetIds = @ \o ExtractIds(items)]
    /\ UNCHANGED <<xvars, corrupt, storeOut, source, failIds, authed, clock,
                   collections, dest, files, inv, resp, nInvoked, hist>>

NextScan ==
    \/ \E size \in ScanSizes : StartScan(size)
    \/ \E ok \in BOOLEAN : ListAnswered(ok)

\* The scan alone; every getRaindrops call it awaits comes back.
SpecScan ==
    /\ InitColl
    /\ [][NextScan]_vars
    /\ WF_vars(\E ok \in BOOLEAN : ListAnswered(ok))

\* --------------------------------------------------------- request loop
\* Lines 522-529: xApiRequest is entered, idleMs after the previous call
\* returned; `calls` is the number of calls counted so far.
EnterXApiRequest(idleMs, calls) ==
    /\ xreq.pc = "idle"
    /\ xreq' = [xreq EXCEPT !.pc = "check", !.attempt = 0, !.status = 0,
                            !.headers = NoHeaders, !.result = "none",
                            !.requests = 0, !.calls = calls]
    /\ nowMs' = nowMs + idleMs
    /\ UNCHANGED <<rateLimiter, xapi>>
    /\ UNCHANGED <<svars, source, failIds, authed, clock, collections, dest,
                   files, inv, resp, nInvoked, hist>>

\* xApiRequest is called, idleMs after the previous call returned.
XApiRequest(idleMs) ==
    /\ xapi.count < MaxRequests
    /\ Seconds(nowMs + idleMs) < (MaxWindows + 1) * WindowSec
    /\ EnterXApiRequest(idleMs, xreq.calls)

\* Line 531: await rateLimiter.checkAndWait(), sleeps included.
CheckAndWait ==
    /\ xreq.pc = "check"
    /\ LET r == checkAndWait(rateLimiter, nowMs)
       IN /\ rateLimiter' = r.rl
          /\ nowMs' = r.now
    /\ xreq' = [xreq EXCEPT !.pc = "fetch"]
    /\ UNCHANGED xapi
    /\ UNCHANGED <<svars, source, failIds, authed, clock, collections, dest,
                   files, inv, resp, nInvoked, hist>>

\* Lines 533-583: the fetch is dispatched and answered, the limiter records
\* it and reads the headers; a 429 is retried after a sleep, any other
\* response ends the call.
Respond(api, status, headers) ==
    /\ xreq.pc = "fetch"
    /\ xapi' = api
    /\ IF status = NetworkFailure
       THEN \* line 533: the rejection of fetch leaves xApiRequest at once
            /\ xreq' = [xreq EXCEPT !.pc = "idle", !.status = status,
                                    !.headers = NoHeaders,
                                    !.result = "exception",
                                    !.requests = @ + 1,
                                    !.dispatchedAt = nowMs]
            /\ UNCHANGED <<rateLimiter, nowMs>>
       ELSE LET resetTime == headers.reset
                waitMs == (resetTime - Seconds(nowMs)) * 1000 + 5000
                retry == ShouldRetry(status, xreq.attempt)
            IN /\ rateLimiter' =
                      updateFromHeaders(recordRequest(rateLimiter, nowMs), headers)
               /\ nowMs' = IF retry THEN sleep(nowMs, waitMs) ELSE nowMs
               /\ xreq' = [xreq EXCEPT
                      !.pc = IF retry THEN "check" ELSE "idle",
                      !.attempt = IF retry THEN @ + 1 ELSE @,
                      !.status = status,
                      !.headers = headers,
                      !.result = IF retry THEN "none"
                                 ELSE IF status = 200 THEN "ok" ELSE "error",
                      !.requests = @ + 1,
                      !.dispatchedAt = nowMs]
    /\ UNCHANGED <<svars, source, failIds, authed, clock, collections, dest,
                   files, inv, resp, nInvoked, hist>>

\* The fetch is answered by the X API that counts the window's requests.
FetchReturns(withHeaders) ==
    LET api == ApiReceives(xapi, nowMs)
    IN Respond(api, ApiStatus(api),
               IF withHeaders THEN ApiHeaders(api) ELSE NoHeaders)

\* The callers' pauses between two requests: none, or until the window of
\* the X API is over.
IdleTimes == {0} \cup { ms \in {xapi.windowEnd * 1000 - nowMs} : ms > 0 }

NextRL ==
    \/ \E idleMs \in IdleTimes : XApiRequest(idleMs)
    \/ CheckAndWait
    \/ \E withHeaders \in BOOLEAN : FetchReturns(withHeaders)

\* The request loop alone, under one import state.
InitRL ==
    /\ Init
    /\ source = << <<1, 2>>, <<3>> >>
    /\ failIds = {}
    /\ dest = << >>

SpecRL == InitRL /\ [][NextRL]_vars

\* Calls of xApiRequest followed when the X API answers anything.
MaxCalls == 2

\* HTTP statuses of the X API's answers, and no answer at all.
Outcomes == {200, 429, 500, NetworkFailure}

\* The rate-limit headers an answer received at time t may carry: none, or an
\* exhausted or an ample budget with a reset at the end of the next second.
AnswerHeaders(t) ==
    { NoHeaders,
      [present |-> TRUE, remaining |-> 0, reset |-> Seconds(t) + 1],
      [present |-> TRUE, remaining |-> 100, reset |-> Seconds(t) + 1] }

\* The callers' pauses between two requests, in milliseconds.
CallerPauses == {0, 700}

\* xApiRequest is called by a tool, at once or a moment after the previous
\* call returned.
XApiCall(idleMs) ==
    /\ xreq.calls < MaxCalls
    /\ EnterXApiRequest(idleMs, xreq.calls + 1)

\* The fetch ends in any way the network and the X API allow.
FetchAnswered(status, headers) ==
    /\ status = NetworkFailure => headers = NoHeaders
    /\ Respond(xapi, status, headers)

NextReq ==
    \/ \E idleMs \in CallerPauses : XApiCall(idleMs)
    \/ CheckAndWait
    \/ \E status \in Outcomes, headers \in AnswerHeaders(nowMs) :
          FetchAnswered(status, headers)

\* The request loop against an X API that answers anything.
SpecReq == InitRL /\ [][NextReq]_vars

\* ------------------------------------------------------------ properties
\* The invocation that made this step is no longer there because the process
\* died, not because it returned.
Crashed(i) == resp'[i].status = "lost" /\ resp[i].status # "lost"

\* Invocation i is entered by this step.
Invoked(i) == inv[i].pc = "idle" /\ resp'[i].seq # resp[i].seq

RunningIds == {id \in DOMAIN files : files[id].status = "running"}

\* C1: every ledger written by saveImportState satisfies
\* totalSaved + totalSkipped + totalFailed <= totalFetched.
C1_CountersWithinFetched ==
    \A id \in DOMAIN files :
        files[id].totalSaved + files[id].totalSkipped + files[id].totalFailed
            <= files[id].totalFetched

\* A resumed run whose ledger holds saved, skipped and failed records.
C1_Witness ==
    \E id \in DOMAIN files :
        /\ hist[id].resumed
        /\ files[id].totalSaved >= 1
        /\ files[id].totalSkipped >= 1
        /\ files[id].totalFailed >= 1

\* What a start-new invocation does when it finds a running ledger.
RefusedAsInProgress(i) ==
    /\ files' = files
    /\ collections' = collections
    /\ dest' = dest
    /\ inv'[i].pc = "idle"
    /\ resp'[i].status = "import_in_progress"
    /\ resp'[i].importId \in RunningIds
    /\ resp'[i].summary = getImportSummary(files[resp'[i].importId])

\* C2 as stated: a start-new invocation that finds a running ledger writes
\* no file, resolves no collection, fetches nothing and answers
\* import_in_progress with that run's id and summary.
C2_AsStated ==
    [][\A i \in Procs :
          (Invoked(i) /\ inv'[i].resumeImportId = NoResume /\ RunningIds # {})
              => RefusedAsInProgress(i)]_vars

\* C2 amended: the same for an invocation made while X tokens are stored.
C2_RefusedWhenAuthenticated ==
    [][\A i \in Procs :
          (Invoked(i) /\ inv'[i].resumeImportId = NoResume /\ RunningIds # {}
             /\ authed')
              => RefusedAsInProgress(i)]_vars

\* A start-new invocation was answered import_in_progress.
C2_Witness ==
    \E i \in Procs : resp[i].status = "import_in_progress"

\* C3: at most one ledger has status running.
C3_AtMostOneRunning == Cardinality(RunningIds) <= 1

\* A start-new invocation that is past createImportState and has written a
\* bookmark.
StartedNewAndWrote(i) ==
    /\ inv[i].resumeImportId = NoResume
    /\ inv[i].pc \in {"fetch", "batch", "finish"}
    /\ inv[i].state.totalSaved + inv[i].saved >= 1

\* C4: of two interleaved start-new invocations at most one creates a run
\* and writes bookmarks.
C4_NoDoubleImport ==
    ~(\A i \in Procs : StartedNewAndWrote(i))

SourceIds == UNION {Range(source[k]) : k \in 1..Len(source)}

\* The records an uninterrupted invocation with this maxResults fetches: it
\* reads page after page and stops after the page that reaches maxResults,
\* at an empty page, or after the last page.
UninterruptedFetch(maxResults) ==
    LET F[k \in 1..Len(source)] ==
            LET before == IF k = 1 THEN [ids |-> {}, n |-> 0, open |-> TRUE]
                          ELSE F[k - 1]
            IN IF ~before.open \/ Len(source[k]) = 0
               THEN [before EXCEPT !.open = FALSE]
               ELSE [ ids |-> before.ids \cup Range(source[k]),
                      n |-> before.n + Len(source[k]),
                      open |-> ~(maxResults # 0
                                   /\ before.n + Len(source[k]) >= maxResults) ]
    IN F[Len(source)].ids

\* totalSaved of an uninterrupted run seeded with `seed`.
UninterruptedSaved(maxResults, seed) ==
    Cardinality((UninterruptedFetch(maxResults) \ seed) \ failIds)

\* C5 as stated: a run that was interrupted and resumed ends with the
\* totalSaved of an uninterrupted run (here: one given the same maxResults).
C5_AsStated ==
    \A id \in DOMAIN files : \A m \in MaxResultsArgs :
        (files[id].status = "completed" /\ hist[id].resumed
           /\ hist[id].caps = {m})
            => files[id].totalSaved = UninterruptedSaved(m, hist[id].seed)

\* C5 amended: the same when no invocation of the run is given maxResults.
C5_ResumeSavesTheSame ==
    \A id \in DOMAIN files :
        (files[id].status = "completed" /\ hist[id].resumed
           /\ hist[id].caps = {0})
            => files[id].totalSaved = UninterruptedSaved(0, hist[id].seed)

\* The reference of C5: an uninterrupted run saves UninterruptedSaved.
C5_Reference ==
    \A id \in DOMAIN files : \A m \in MaxResultsArgs :
        (files[id].status = "completed" /\ ~hist[id].resumed
           /\ hist[id].caps = {m})
            => files[id].totalSaved = UninterruptedSaved(m, hist[id].seed)

\* A run over an empty collection was interrupted after its pages were on
\* disk, resumed, fetched records it had saved before and has completed.
C5_Witness ==
    \E id \in DOMAIN files :
        /\ files[id].status = "completed"
        /\ hist[id].resumed
        /\ hist[id].caps = {0}
        /\ hist[id].seed = {}
        /\ files[id].totalSaved >= 2
        /\ files[id].totalSkipped >= 1

SourceDistinct ==
    \A k, l \in 1..Len(source) : \A a \in 1..Len(source[k]), b \in 1..Len(source[l]) :
        source[k][a] = source[l][b] => (k = l /\ a = b)

Written(id) == {t \in TweetIds : hist[id].wrote[t] >= 1}

\* What C6 says of a run: S the ids the collection encoded, R the ids the
\* source delivered.
DuplicatesSuppressed(id) ==
    LET S == hist[id].collIds
        R == hist[id].fetched
    IN /\ files[id].totalSkipped = Cardinality(R \cap S)
       /\ files[id].totalSaved = Cardinality(R \ S)
       /\ Written(id) = R \ S
       /\ \A t \in TweetIds : hist[id].wrote[t] <= 1
       /\ (S \cup R) \subseteq Range(files[id].processedTweetIds)

FreshRunDone(id) ==
    /\ files[id].status = "completed"
    /\ ~hist[id].resumed
    /\ failIds = {}
    /\ SourceDistinct

ScanComplete(id) == ~hist[id].listFailed

AtFailingRecord(i) ==
    /\ inv[i].pc = "batch"
    /\ inv[i].idx <= Len(inv[i].page)
    /\ ~Contains(inv[i].state.processedTweetIds, inv[i].page[inv[i].idx])
    /\ inv[i].page[inv[i].idx] \in failIds

C8_Termination ==
    /\ [][\A i \in Procs :
            /\ (inv[i].pc = "batch" /\ inv[i].idx > Len(inv[i].page)
                  /\ inv'[i] # inv[i] /\ ~Crashed(i)) =>
                  (inv'[i].pc = "finish" <=>
                      \/ inv[i].nextToken = NoToken
                      \/ /\ inv[i].maxResults # 0
                         /\ inv[i].totalProcessed + Len(inv[i].page)
                               >= inv[i].maxResults)
            /\ (inv[i].pc = "finish" /\ inv'[i] # inv[i] /\ ~Crashed(i)) =>
                  /\ inv'[i].pc = "idle"
                  /\ resp'[i].status = "completed"
                  /\ files'[inv[i].state.importId].status = "completed"
                  /\ files'[inv[i].state.importId].nextPaginationToken = NoToken
            /\ (inv[i].pc = "fetch" /\ inv'[i] # inv[i] /\ ~Crashed(i)
                  /\ Len(SourcePage(inv[i].paginationToken)) = 0
                  /\ resp'[i].status # "failed") =>
                  /\ inv'[i].pc = "idle"
                  /\ resp'[i].status = "completed"
                  /\ files'[inv[i].state.importId].status = "completed"
                  /\ files'[inv[i].state.importId].nextPaginationToken = NoToken
                  /\ files'[inv[i].state.importId].totalFetched =
                         inv[i].state.totalFetched]_vars
    /\ [](\A id \in DOMAIN files :
            (files[id].status = "completed" /\ Len(source) = 2
               /\ Len(source[2]) = 0) =>
                /\ files[id].nextPaginationToken = NoToken
                /\ files[id].totalFetched = Len(source[1]))

\* A run over the source whose second page is empty has completed in one
\* invocation without maxResults.
C8_Witness ==
    \E id \in DOMAIN files :
        /\ files[id].status = "completed"
        /\ Len(source[2]) = 0
        /\ ~hist[id].resumed
        /\ hist[id].caps = {0}
        /\ files[id].totalFetched = 2

\* C9: the requests the limiter lets through within one rate-limit window
\* never exceed the window's ceiling: once the budget of a window is used up,
\* the next request waits for the window's end.
C9_WithinCeiling == xapi.count <= RateLimit

\* C10: a completed ledger has no cursor, and a running or failed ledger
\* that has processed a page has one.
C10_CursorClearedExactlyOnCompletion ==
    \A id \in DOMAIN files :
        /\ files[id].status = "completed"
              => files[id].nextPaginationToken = NoToken
        /\ (files[id].status \in {"running", "failed"}
              /\ files[id].totalFetched > 0)
              => files[id].nextPaginationToken # NoToken

\* C11: when getCurrentXUser or fetchBookmarks throws, the invocation returns
\* failed with the run id and the summary, and the ledger file of the run is
\* the one that was on disk (the last persisted page's cursor, counters and
\* processed ids) with status failed; no other file changes.
C11_FailurePersisted ==
    [][\A i \in Procs :
          (inv[i].pc \in {"getUser", "fetch"} /\ resp'[i].status = "failed") =>
              LET id == inv[i].state.importId
              IN /\ files[id].status = "running"
                 /\ files' = [files EXCEPT ![id].status = "failed"]
                 /\ inv'[i].pc = "idle"
                 /\ resp'[i].importId = id
                 /\ resp'[i].summary = getImportSummary(files'[id])
                 /\ dest' = dest]_vars

\* A run failed at the fetch of its second page: the failed ledger holds the
\* first page's counters and the cursor of the second page.
C11_Witness ==
    \E i \in Procs : \E id \in DOMAIN files :
        /\ resp[i].status = "failed"
        /\ resp[i].importId = id
        /\ files[id].status = "failed"
        /\ files[id].totalFetched = 2
        /\ files[id].nextPaginationToken = 2
        /\ Len(files[id].processedTweetIds) >= 1

\* Invocation i is entered by this step as a resume of a ledger that is on
\* disk and not completed.
ResumesOpenRun(i) ==
    /\ Invoked(i)
    /\ inv'[i].resumeImportId \in DOMAIN files
    /\ files[inv'[i].resumeImportId].status # "completed"

\* What the entry of a resume does: the ledger on disk goes to running, all
\* else in it as it was, and the invocation goes on with that ledger, nothing
\* fetched or written yet.
ReloadsLedger(i) ==
    LET id == inv'[i].resumeImportId
    IN /\ files' = [files EXCEPT ![id].status = "running"]
       /\ inv'[i].pc = "getUser"
       /\ inv'[i].state = files'[id]
       /\ dest' = dest

\* The loop is entered with what the ledger on disk holds.
EntersLoopFromLedger(i) ==
    (inv[i].pc = "getUser" /\ inv'[i].pc = "fetch") =>
        LET id == inv[i].state.importId
        IN /\ inv'[i].paginationToken = files[id].nextPaginationToken
           /\ inv'[i].state = files[id]
           /\ files' = files

\* C12 as stated: every resume-by-ID of a ledger that is not completed
\* reloads it, saves it as running before any fetch, and enters the loop with
\* the persisted cursor, counters, error log and processed ids.
C12_AsStated ==
    [][\A i \in Procs :
          /\ ResumesOpenRun(i) => ReloadsLedger(i)
          /\ EntersLoopFromLedger(i)]_vars

\* C12 amended: the same for a resume made while X tokens are stored.
C12_ResumeFromLedger ==
    [][\A i \in Procs :
          /\ (ResumesOpenRun(i) /\ authed') => ReloadsLedger(i)
          /\ EntersLoopFromLedger(i)]_vars

\* A resumed invocation is about to fetch the second page, with the first
\* page's counters and error log.
C12_Witness ==
    \E i \in Procs :
        /\ inv[i].pc = "fetch"
        /\ inv[i].resumeImportId # NoResume
        /\ inv[i].paginationToken = 2
        /\ inv[i].state.totalFetched = 2
        /\ inv[i].state.errors = <<2>>
        /\ inv[i].state.processedTweetIds # << >>

\* The records run `id` wrote to the destination that the processed ids of
\* its ledger file do not hold.
Unpersisted(id) == Written(id) \ Range(files[id].processedTweetIds)

C14_OnlyInFlightRepeated ==
    \A id \in DOMAIN files : \A t \in TweetIds :
        hist[id].wrote[t] >= 2 => t \in hist[id].inflight

\* The invocation entered by this step returns at once and leaves the
\* ledger files, the collections and the destination as they are.
ReturnsUntouched(i) ==
    /\ inv'[i].pc = "idle"
    /\ files' = files
    /\ collections' = collections
    /\ dest' = dest

\* What a resume request gets for a run id without a file, and for a
\* completed run.
ResumeShortCircuits(i) ==
    LET id == inv'[i].resumeImportId
    IN /\ id \notin DOMAIN files =>
             /\ resp'[i].status = "import_not_found"
             /\ ReturnsUntouched(i)
       /\ (id \in DOMAIN files /\ files[id].status = "completed") =>
             /\ resp'[i].status = "already_completed"
             /\ resp'[i].summary.importId = id
             /\ resp'[i].summary.status = "completed"
             /\ resp'[i].summary.fetched = files[id].totalFetched
             /\ resp'[i].summary.saved = files[id].totalSaved
             /\ resp'[i].summary.skipped = files[id].totalSkipped
             /\ resp'[i].summary.failed = files[id].totalFailed
             /\ resp'[i].summary.errorCount = Len(files[id].errors)
             /\ ReturnsUntouched(i)

\* C15 as stated: a resume request for an unknown run id is answered Import
\* not found, one for a completed run already_completed with the run's
\* summary; neither touches a file, fetches a page or writes a bookmark.
C15_AsStated ==
    [][\A i \in Procs :
          (Invoked(i) /\ inv'[i].resumeImportId # NoResume)
              => ResumeShortCircuits(i)]_vars

\* C15 amended: the same for a request made while X tokens are stored.
C15_ResumeShortCircuits ==
    [][\A i \in Procs :
          (Invoked(i) /\ inv'[i].resumeImportId # NoResume /\ authed')
              => ResumeShortCircuits(i)]_vars

\* A resume of a completed run that had saved bookmarks was answered
\* already_completed.
C15_Witness ==
    \E i \in Procs :
        /\ resp[i].status = "already_completed"
        /\ resp[i].summary.saved >= 2
        /\ resp[i].summary.fetched = 3

\* The source records invocation i has processed so far: those of its
\* finished pages and those of the page in process.
ProcessedByInvocation(i) ==
    inv[i].totalProcessed + (IF inv[i].pc = "batch" THEN inv[i].idx - 1 ELSE 0)

\* C16: an invocation given maxResults = M processes no more than M source
\* records, and a fresh run given M saves no more than M bookmarks.
C16_WithinMaxResults ==
    \A i \in Procs :
        inv[i].maxResults # 0 =>
            /\ ProcessedByInvocation(i) <= inv[i].maxResults
            /\ inv[i].resumeImportId = NoResume =>
                  inv[i].state.totalSaved + inv[i].saved <= inv[i].maxResults

\* ------------------------------------------------------- the store alone
\* Ledger statuses (XImportStatus) a saved ledger can carry.
Statuses == {"running", "completed", "failed"}

\* saveImportState of a ledger of run `importId`: writeFileSync replaces
\* whatever the file held.
StoreSave(importId, status) ==
    /\ files' = saveImportState(files,
           [createImportState(importId, 1, "X-Bookmarks") EXCEPT !.status = status])
    /\ corrupt' = corrupt \ {importId}
    /\ storeOut' = NoStoreResult
    /\ UNCHANGED <<scan, xvars, source, failIds, authed, clock, collections, dest, inv,
                   resp, nInvoked, hist>>

\* The file of a run is left cut short by a crash in the middle of a save,
\* or made unreadable.
StoreDamage(importId) ==
    /\ importId \in DOMAIN files
    /\ corrupt' = corrupt \cup {importId}
    /\ storeOut' = NoStoreResult
    /\ UNCHANGED <<scan, xvars, source, failIds, authed, clock, collections, dest, files,
                   inv, resp, nInvoked, hist>>

\* loadImportState(importId) is called.
StoreLoad(importId) ==
    /\ storeOut' =
          IF ImportExists(files, importId)
          THEN StoreResult("load", importId, TRUE,
                           loadImportState(files, importId), << >>)
          ELSE StoreResult("load", importId, FALSE, NoState, << >>)
    /\ UNCHANGED <<scan, xvars, source, failIds, authed, clock, collections, dest, files,
                   inv, resp, nInvoked, hist, corrupt>>

\* getActiveImport() is called.
StoreGetActive ==
    /\ IF ActiveImports(files) # {}
       THEN \E a \in ActiveImports(files) :
               storeOut' = StoreResult("active", 0, TRUE, files[a], << >>)
       ELSE storeOut' = StoreResult("active", 0, FALSE, NoState, << >>)
    /\ UNCHANGED <<scan, xvars, source, failIds, authed, clock, collections, dest, files,
                   inv, resp, nInvoked, hist, corrupt>>

\* listImportStates() is called.
StoreList ==
    /\ storeOut' = StoreResult("list", 0, TRUE, NoState, listImportStates(files))
    /\ UNCHANGED <<scan, xvars, source, failIds, authed, clock, collections, dest, files,
                   inv, resp, nInvoked, hist, corrupt>>

NextStore ==
    \/ \E importId \in RunIds, status \in Statuses : StoreSave(importId, status)
    \/ \E importId \in RunIds : StoreDamage(importId)
    \/ \E importId \in RunIds : StoreLoad(importId)
    \/ StoreGetActive
    \/ StoreList

\* The store's functions called directly on a directory of run files.
InitStore ==
    /\ Init
    /\ source = << <<1, 2>>, <<3>> >>
    /\ failIds = {}
    /\ dest = << >>

SpecStore == InitStore /\ [][NextStore]_vars

\* The run files that parse.
WellFormed == {id \in DOMAIN files : id \notin corrupt}

\* C17: loadImportState returns null for a file that does not parse and the
\* ledger for one that does; getActiveImport returns a running ledger
\* whenever a file that parses holds one, whatever other files are corrupt;
\* listImportStates returns exactly the ledgers of the files that parse.
C17_CorruptFilesSkipped ==
    /\ storeOut.op = "load" =>
          /\ storeOut.found <=> storeOut.importId \in WellFormed
          /\ storeOut.found => storeOut.state = files[storeOut.importId]
    /\ storeOut.op = "active" =>
          /\ storeOut.found <=>
                \E id \in WellFormed : files[id].status = "running"
          /\ storeOut.found =>
                \E id \in WellFormed : /\ files[id].status = "running"
                                       /\ storeOut.state = files[id]
    /\ storeOut.op = "list" =>
          /\ Range(storeOut.list) = {files[id] : id \in WellFormed}
          /\ Len(storeOut.list) = Cardinality(WellFormed)

\* getActiveImport found a running ledger in a directory where the file of
\* an earlier run is corrupt.
C17_Witness ==
    /\ storeOut.op = "active"
    /\ storeOut.found
    /\ \E c \in corrupt : c < storeOut.state.importId

\* C18: no step changes the collectionId or the collectionName of a ledger
\* file, a resume given another collectionName included; and a bookmark an
\* invocation writes carries the collectionId of the ledger file of its run.
C18_CollectionFixed ==
    [][/\ \A id \in DOMAIN files :
             /\ id \in DOMAIN files'
             /\ files'[id].collectionId = files[id].collectionId
             /\ files'[id].collectionName = files[id].collectionName
       /\ \A i \in Procs :
             (inv[i].pc = "batch" /\ dest' # dest) =>
                 /\ Len(dest') = Len(dest) + 1
                 /\ dest'[Len(dest')].collectionId =
                        files[inv[i].state.importId].collectionId
                 /\ dest'[Len(dest')].collectionId =
                        CollectionId(files[inv[i].state.importId].collectionName)]_vars

\* A run created for "Reading" was resumed with the default collectionName
\* and the resumed invocation has written a bookmark.
C18_Witness ==
    \E i \in Procs :
        /\ inv[i].resumeImportId # NoResume
        /\ inv[i].collectionName = DefaultCollection
        /\ inv[i].state.collectionName = "Reading"
        /\ inv[i].pc = "batch"
        /\ inv[i].saved >= 1
        /\ dest[Len(dest)].collectionId = 2

\* The processed ids of the ledger file of run `id` that the duplicate scan
\* did not seed.
NonSeeded(id) == Range(files[id].processedTweetIds) \ hist[id].seed

\* C19: in every ledger file the processed ids are the seeded ids and the
\* ids of records the run wrote: the ids not seeded are as many as
\* totalSaved, each was written by the run, and no id of a record whose write
\* fails is among them.
C19_ProcessedAreSeededOrSaved ==
    \A id \in DOMAIN files :
        /\ Cardinality(NonSeeded(id)) = files[id].totalSaved
        /\ NonSeeded(id) \subseteq Written(id)
        /\ NonSeeded(id) \cap failIds = {}

\* A ledger file of a run that was seeded, saved a record and had a record
\* fail.
C19_Witness ==
    \E id \in DOMAIN files :
        /\ hist[id].seed # {}
        /\ files[id].totalSaved >= 1
        /\ files[id].totalFailed >= 1
        /\ files[id].totalSkipped >= 1

\* Invocation i has created a run with createImportState.
CreatedRun(i) ==
    /\ inv[i].resumeImportId = NoResume
    /\ inv[i].pc \in {"scan", "getUser", "fetch", "batch", "finish"}

\* C20: two runs created by createImportState never have the same run id.
C20_UniqueRunIds ==
    \A i, j \in Procs :
        (i # j /\ CreatedRun(i) /\ CreatedRun(j))
            => inv[i].state.importId # inv[j].state.importId

\* This step is the dispatch of a fetch by xApiRequest and its answer.
Dispatched == xreq.pc = "fetch" /\ xreq'.requests = xreq.requests + 1

\* C21: one call of xApiRequest issues at most 3 requests; only a 429 is
\* followed by a retry; a retry is dispatched no earlier than the reset time
\* of that 429's headers plus 5 seconds; a 429 on the third request, and any
\* other status that is not ok on any request, end the call with an error and
\* without a sleep.
C21_RetryOnlyAfter429 ==
    /\ [](xreq.requests <= 3)
    /\ [][Dispatched =>
            /\ xreq'.pc = "check" => xreq'.status = 429
            /\ xreq.attempt > 0 =>
                  /\ xreq.status = 429
                  /\ nowMs >= xreq.headers.reset * 1000 + 5000
            /\ (xreq'.status = 429 /\ xreq.requests = 2) =>
                  /\ xreq'.pc = "idle"
                  /\ xreq'.result = "error"
                  /\ nowMs' = nowMs
            /\ xreq'.status \notin {200, 429, NetworkFailure} =>
                  /\ xreq'.pc = "idle"
                  /\ xreq'.result = "error"
                  /\ nowMs' = nowMs]_vars

\* A call has failed on its third 429 in a row, the retries having waited
\* for the reset times of the headers.
C21_Witness ==
    /\ xreq.pc = "idle"
    /\ xreq.result = "error"
    /\ xreq.requests = 3
    /\ xreq.status = 429
    /\ xreq.headers.present
    /\ nowMs >= (WindowSec + 4) * 1000

\* The sleep that keeps a call of checkAndWait at time nowMs 350 ms after
\* the previous request.
IntervalSleep ==
    IF /\ rateLimiter.lastRequestTime > 0
       /\ nowMs - rateLimiter.lastRequestTime < 350
    THEN 350 - (nowMs - rateLimiter.lastRequestTime)
    ELSE 0

C23_MinimumInterval ==
    [][(Dispatched /\ xreq.dispatchedAt > 0) =>
          nowMs - xreq.dispatchedAt >= 350]_vars

\* C24: at every dispatched fetch, whatever comes back, the limiter's
\* lastRequestTime becomes the current time and remaining goes down by one,
\* not below zero; then a rate-limit header that is present replaces
\* remaining and reset, and nothing else does.
C24_RecordedWhateverOutcome ==
    [][Dispatched =>
          LET counted == IF rateLimiter.remaining > 0
                         THEN rateLimiter.remaining - 1 ELSE 0
          IN /\ rateLimiter'.lastRequestTime = nowMs
             /\ rateLimiter'.remaining >= 0
             /\ rateLimiter'.remaining =
                   IF xreq'.headers.present THEN xreq'.headers.remaining
                   ELSE counted
             /\ rateLimiter'.reset =
                   IF xreq'.headers.present THEN xreq'.headers.reset
                   ELSE rateLimiter.reset]_vars

\* The save at the end of a page of invocation i threw in this step: the
\* page's records are done and the invocation is gone without another fetch.
PagePersistFailed(i) ==
    /\ inv[i].pc = "batch"
    /\ inv[i].idx > Len(inv[i].page)
    /\ inv'[i].pc = "idle"

\* C25: when the save at the end of a page throws, the invocation returns
\* failed with the run id, and the ledger file of the run is readable and
\* not running, so that the run can be resumed and no later import is
\* refused because of it.
C25_PersistFailureEndsRun ==
    [][\A i \in Procs :
          PagePersistFailed(i) =>
              LET id == inv[i].state.importId
              IN /\ resp'[i].status = "failed"
                 /\ resp'[i].importId = id
                 /\ id \in DOMAIN files'
                 /\ id \notin corrupt'
                 /\ files'[id].status # "running"]_vars

\* The items the scan has read when it ends: the pages before an error or
\* up to the limit are full pages, a short page is the collection's end.
ScannedItems ==
    IF scan.stop = "short" THEN scan.size ELSE 50 * scan.page

\* C26: the scan requests pages 0, 1, 2, ... and never a page beyond 100;
\* while the list call answers it ends exactly at the first page of fewer
\* than 50 items or after page 100; every scan ends; and it returns, in
\* order, the id of every item read whose link is an x.com or twitter.com
\* status link.
C26_ScanTerminates ==
    /\ [](scan.pc = "list" => scan.page <= 100)
    /\ [][(scan.pc = "list" /\ scan' # scan /\ scan'.stop # "error") =>
             LET rest == scan.size - 50 * scan.page
                 n == IF rest >= 50 THEN 50 ELSE IF rest > 0 THEN rest ELSE 0
             IN /\ scan'.pc = "done" <=> (n < 50 \/ scan.page = 100)
                /\ scan'.pc = "list" => scan'.page = scan.page + 1
                /\ scan'.stop = "limit" <=> (n = 50 /\ scan.page = 100)]_vars
    /\ [](scan.pc = "done" =>
             /\ Range(scan.tweetIds) = {k \in 1..ScannedItems : k % 5 \in {0, 1}}
             /\ \A a \in 1..(Len(scan.tweetIds) - 1) :
                   scan.tweetIds[a] < scan.tweetIds[a + 1])
    /\ (scan.pc = "list" ~> scan.pc = "done")

\* A scan of a collection of 6000 items has ended at the page limit, after
\* 101 full pages.
C26_Witness ==
    /\ scan.pc = "done"
    /\ scan.stop = "limit"
    /\ scan.size = 6000
    /\ scan.page = 101
    /\ Len(scan.tweetIds) = 2020

\* Sequence a is the beginning of sequence b.
IsPrefix(a, b) ==
    /\ Len(a) <= Len(b)
    /\ \A k \in 1..Len(a) : a[k] = b[k]

\* C27: in every ledger, on disk and in an invocation, the error log is as
\* long as totalFailed; a step only appends to the log of a ledger file and
\* of a running invocation, and a resume starts from the log on disk; a
\* record that fails adds one entry and one to totalFailed and is not marked
\* processed, any other record adds none; and a record of the log that the
\* source delivers again is attempted again, not skipped.
C27_ErrorLogAppendOnly ==
    /\ [](/\ \A id \in DOMAIN files :
                Len(files[id].errors) = files[id].totalFailed
          /\ \A i \in Procs :
                Len(inv[i].state.errors) = inv[i].state.totalFailed)
    /\ [][/\ \A id \in DOMAIN files :
                /\ id \in DOMAIN files'
                /\ IsPrefix(files[id].errors, files'[id].errors)
          /\ \A i \in Procs :
                /\ (inv[i].pc # "idle" /\ inv'[i].pc # "idle") =>
                      IsPrefix(inv[i].state.errors, inv'[i].state.errors)
                /\ (Invoked(i) /\ inv'[i].pc = "getUser") =>
                      inv'[i].state.errors = files[inv'[i].resumeImportId].errors
                /\ (inv[i].pc = "batch" /\ inv[i].idx <= Len(inv[i].page)
                      /\ inv'[i].pc = "batch" /\ inv'[i] # inv[i]) =>
                      LET t == inv[i].page[inv[i].idx]
                          failed == inv'[i].state.totalFailed
                                       = inv[i].state.totalFailed + 1
                      IN /\ failed <=> inv'[i].state.errors =
                                           Append(inv[i].state.errors, t)
                         /\ failed \/ inv'[i].state.errors = inv[i].state.errors
                         /\ failed => /\ ~isTweetProcessed(inv'[i].state, t)
                                      /\ inv'[i].saved = inv[i].saved
                                      /\ dest' = dest
                         /\ AtFailingRecord(i) => failed
                         /\ Contains(inv[i].state.errors, t) =>
                               inv'[i].skipped = inv[i].skipped]_vars

\* The ledger file of a resumed run holds two entries for one record: it
\* failed, was delivered again after the resume and failed again.
C27_Witness ==
    \E id \in DOMAIN files :
        /\ hist[id].resumed
        /\ files[id].errors = <<2, 2>>
        /\ files[id].totalFailed = 2
        /\ ~Contains(files[id].processedTweetIds, 2)

\* The ledger file of run `id` says running and no invocation is working on
\* the run: the process that did has crashed.
Orphaned(id) ==
    /\ files[id].status = "running"
    /\ \A i \in Procs : inv[i].pc = "idle" \/ inv[i].state.importId # id

\* An orphaned ledger stays as it is unless the step is a resume of the run
\* or the deletion of its file.
OrphanStays ==
    \A id \in DOMAIN files :
        Orphaned(id) =>
            \/ id \in DOMAIN files' /\ files'[id] = files[id]
            \/ id \notin DOMAIN files'
            \/ \E i \in Procs : Invoked(i) /\ inv'[i].resumeImportId = id

\* A start-new invocation is refused with import_in_progress and creates no
\* run.
RefusedNoRun(i) ==
    /\ resp'[i].status = "import_in_progress"
    /\ inv'[i].pc = "idle"
    /\ files' = files
    /\ clock' = clock

SourceRecords ==
    LET F[k \in 0..Len(source)] ==
            IF k = 0 THEN 0 ELSE F[k - 1] + Len(source[k])
    IN F[Len(source)]

\* C29: the totalFetched of a ledger file counts every page of the source at
\* most once, so it never exceeds the records the source holds, whatever
\* failures, crashes and resumes the run went through.
C29_PagesCountedOnce ==
    \A id \in DOMAIN files : files[id].totalFetched <= SourceRecords

\* The ids that the collection's links encode and the scan of run `id` did
\* not collect: those of the pages it did not read.
Unscanned(id) == hist[id].collIds \ hist[id].seed

\* C30: whatever page the list call of the duplicate scan throws at, the
\* handler goes on: the run is saved as running, seeded with the ids of the
\* pages read before the error, and is not answered as failed; and a run
\* that then completes in one invocation has written again every record
\* the source delivered whose id was on a page not read, counting it as
\* saved, and has skipped the delivered records whose ids were read.
C30_ScanErrorTolerated ==
    /\ [][\A i \in Procs :
             (inv[i].pc = "scan" /\ inv'[i] # inv[i]) =>
                 LET id == inv[i].state.importId
                 IN /\ inv'[i].pc = "getUser"
                    /\ resp'[i].status = "pending"
                    /\ id \in DOMAIN files'
                    /\ files'[id].status = "running"
                    /\ hist'[id].read % 50 = 0 \/ hist'[id].read = Len(dest)
                    /\ Range(files'[id].processedTweetIds) =
                          EncodedIds(SubSeq(dest, 1, hist'[id].read))
                    /\ dest' = dest]_vars
    /\ [](\A id \in DOMAIN files :
             (files[id].status = "completed" /\ ~hist[id].resumed) =>
                 /\ \A t \in Unscanned(id) \cap hist[id].fetched :
                       hist[id].wrote[t] >= 1
                 /\ files[id].totalSkipped =
                       Cardinality(hist[id].fetched \cap hist[id].seed)
                 /\ files[id].totalSaved =
                       Cardinality(hist[id].fetched \ hist[id].seed))

\* The list call threw at the second page; the run was seeded with tweet 2
\* of the first page, skipped it, and wrote tweet 1 of the second page again.
C30_Witness ==
    \E id \in DOMAIN files :
        /\ files[id].status = "completed"
        /\ ~hist[id].resumed
        /\ hist[id].listFailed
        /\ hist[id].seed = {2}
        /\ Unscanned(id) = {1}
        /\ hist[id].wrote[1] = 1
        /\ files[id].totalSkipped = 1
        /\ files[id].totalSaved = 2
        /\ Cardinality({k \in 1..Len(dest) : dest[k].id = 1}) = 2

====
